---------------------------- MODULE Spec2Model ----------------------------
(***************************************************************************)
(* Model of the MMDVM modem driver of pd0mz/go-dv (package mmdvm,          *)
(* src/unnamed/part_000): Modem.Run (synchronisation and receive loop),    *)
(* Modem.send, Modem.sendAndWait and Modem.sendAndWaitForACK.              *)
(*                                                                         *)
(* Goroutines: one runs Modem.Run; each element of Callers is a goroutine  *)
(* that calls the request functions.  Each action is one step of one       *)
(* goroutine between two points where another goroutine can observe it.    *)
(*                                                                         *)
(* Byte buffers are sequences of numbers 0..255; Go index i of a slice is  *)
(* TLA+ index i+1 (operator At).                                           *)
(*                                                                         *)
(* The serial port (github.com/tarm/serial) is not part of the repository: *)
(* a Read either fills the whole buffer with the next bytes of the stream  *)
(* or fails, a Write either succeeds or fails.                             *)
(*                                                                         *)
(* m.callback and m.Callback are plain Go maps used by several goroutines  *)
(* without a lock.  Two accesses that can happen at the same time, one of  *)
(* them a write, are a data race: the accesses either take effect one      *)
(* after the other, or the Go runtime ends the process ("fatal error:      *)
(* concurrent map read and map write").  Action MapRace is that second     *)
(* outcome.  An unrecovered panic (index out of range) ends the process    *)
(* too.  crash records both; a crashed process has no goroutines and no     *)
(* memory left (state Dead) and takes no further step.                     *)
(*                                                                         *)
(* Each caller makes one call (a goroutine that calls again behaves as a   *)
(* new caller would).  The callers are interchangeable: the one that       *)
(* calls first is named c1.                                                *)
(***************************************************************************)
EXTENDS Naturals, Integers, Sequences, FiniteSets, TLC

\* ------------------------------------------------------------- bounds
\* Chunks (frames) the device sends in Spec and SpecAck.
MaxFrames == 3
\* Single bytes the device sends in SpecSync.
MaxBytes == 7
\* Bytes of the longest command body in SpecEncode.
MaxBody == 254

\* ---------------------------------------------------------- constants
GetVersion == 0
GetStatus == 1
SetMode == 3
DStarHeader == 16
DStarData == 17
DMRData == 24
SystemFusionData == 32
ACK == 112
NAK == 127
FrameStart == 224

\* NAK reasons (iota + 1)
InvalidCommand == 1
WrongMode == 2
CommandTooLong == 3
DataIncorrect == 4
NotEnoughBufferSpace == 5

\* nakError: the typed error of each known NAK reason.
nakError ==
  (InvalidCommand :> "ErrInvalidCommand") @@ (WrongMode :> "ErrWrongMode")
  @@ (CommandTooLong :> "ErrCommandTooLong") @@ (DataIncorrect :> "ErrDataIncorrect")
  @@ (NotEnoughBufferSpace :> "ErrNotEnoughBufferSpace")

\* The goroutines that call the request functions.
Callers == {"c1", "c2"}

\* uint8 arithmetic.
U8(n) == n % 256

\* Go's data[i] on a slice held as a sequence.
At(d, i) == d[i + 1]

\* data[i:] of a slice.
From(d, i) == SubSeq(d, i + 1, Len(d))

\* A nil channel / an absent map entry.
NoChan == 0

\* No frame.
NoFrame == << >>

VARIABLES
  rpc,       \* where goroutine Run is
  data,      \* Run's local buffer
  rx,        \* bytes the device has sent and Run has not read yet
  nsent,     \* chunks the device has sent
  version,   \* m.version
  running,   \* m.running
  runErr,    \* what Run returned ("none" while it runs)
  rchan,     \* Run's local c: the channel it looked up for this frame
  callback,  \* m.callback: key -> channel (NoChan: no entry)
  Callback,  \* m.Callback: the streamed command ids with a handler
  chans,     \* each channel's buffer (capacity 1)
  nchan,     \* channels made so far
  cpc,       \* where each caller is
  creq,      \* each caller's request: [body, ack]
  cwait,     \* the channel each caller's select waits on
  cown,      \* the channel each call made when it registered
  cres,      \* what sendAndWait returns: [frame, err]
  clate,     \* whether the call was issued after Run had returned
  nframe,    \* frames Run has completed reading in the loop
  handed,    \* the frame numbers handed to a channel or handler, in order
  active,    \* the frame numbers whose handler is running
  crash      \* "none", or why the process ended

vars == << rpc, data, rx, nsent, version, running, runErr, rchan, callback,
           Callback, chans, nchan, cpc, creq, cwait, cown, cres, clate,
           nframe, handed, active, crash >>

runVars == << rpc, data, rx, version, running, runErr, rchan, nframe, handed, active >>
callVars == << cpc, creq, cwait, cown, cres, clate >>


\* ------------------------------------------------------------ helpers
\* The streamed command ids, which go to m.Callback.
Streamed == {DStarHeader, DStarData, DMRData, SystemFusionData}

\* The streamed ids the application registers a handler for.
HandlerIds == {DMRData}

\* The case of Run's switch a frame takes.
Class(d) ==
  IF At(d, 2) \in {ACK, NAK} THEN "ack"
  ELSE IF At(d, 2) \in Streamed THEN "stream"
  ELSE "reply"

\* The key Run looks a frame up under: data[3] for ACK/NAK, else data[2].
FrameKey(d) == IF Class(d) = "ack" THEN At(d, 3) ELSE At(d, 2)

\* c, ok := m.callback[k]
Lookup(k) == IF k \in DOMAIN callback THEN callback[k] ELSE NoChan

\* Whether Run's switch reads m.callback for this frame (it has passed the
\* length check of its case).
LooksUp(d) ==
  /\ Len(d) >= 3
  /\ \/ Class(d) = "reply"
     \/ Class(d) = "ack" /\ Len(d) >= 4

\* The condition of the synchronisation loop: keep reading the next byte.
ScanContinues(d) == At(d, 0) # FrameStart /\ At(d, 2) # GetVersion

\* The bytes the device may send, one at a time, while Run synchronises.
SyncBytes == {0, 1, 2, 4, FrameStart}

\* The chunks the device may send in Spec.
DeviceFrames ==
  { << FrameStart, 4, GetVersion, 1 >>,      \* version reply, version 1
    << FrameStart, 3, GetStatus >>,          \* reply to Get Status
    << FrameStart, 3, DMRData >> }           \* streamed DMR data

\* The chunks the device may send in FairSpec: replies only.
ReplyFrames ==
  { << FrameStart, 4, GetVersion, 1 >>,
    << FrameStart, 3, GetStatus >> }

\* The chunks the device may send in SpecAck: what it can answer to Set Mode.
AckFrames ==
  { << FrameStart, 4, GetVersion, 1 >>,
    << FrameStart, 4, ACK, SetMode >>,
    << FrameStart, 3, SetMode >>,            \* a reply with command id Set Mode
    << FrameStart, 4, NAK, SetMode >> }      \* NAK without a reason byte
    \cup { << FrameStart, 5, NAK, SetMode, r >> : r \in 0..6 }

\* The chunks the device may send in SpecLoop: frames of several lengths,
\* two frames back to back, and malformed headers (length byte 0, 1 and 2,
\* a first byte that is not the start marker) with a byte after them.
LoopFrames ==
  { << FrameStart, 4, GetVersion, 1 >>,
    << FrameStart, 3, GetStatus >>,
    << FrameStart, 4, DMRData, 9 >>,
    << FrameStart, 3, GetStatus, FrameStart, 4, DMRData, 9 >>,
    << FrameStart, 2 >>,
    << FrameStart, 2, GetStatus >>,
    << FrameStart, 1, GetStatus >>,
    << FrameStart, 0, GetStatus >>,
    << GetStatus, 3, GetStatus >> }

\* The chunks the device may send in SpecKey: replies and ACK/NAK frames for
\* the two keys the callers use.
KeyFrames ==
  { << FrameStart, 4, GetVersion, 1 >>,
    << FrameStart, 3, GetStatus >>,
    << FrameStart, 4, ACK, GetStatus >>,
    << FrameStart, 4, ACK, SetMode >>,
    << FrameStart, 5, NAK, SetMode, WrongMode >> }

\* Need with the body Read one byte short.
NeedOneLess ==
  CASE rpc = "read3" -> 3
    [] rpc = "scan" -> IF ScanContinues(data) THEN 1 ELSE 0
    [] rpc = "readVersion" -> At(data, 1) - 3
    [] rpc = "readHeader" -> 2
    [] rpc = "readBody" -> IF At(data, 1) > 2 THEN At(data, 1) - 3 ELSE 0
    [] OTHER -> 0

\* The number of bytes the Read that Run is at asks for.
Need ==
  CASE rpc = "read3" -> 3
    [] rpc = "scan" -> IF ScanContinues(data) THEN 1 ELSE 0
    [] rpc = "readVersion" -> At(data, 1) - 3
    [] rpc = "readHeader" -> 2
    [] rpc = "readBody" -> At(data, 1) - 2
    [] OTHER -> 0

Alive == crash = "none"

\* The process has ended: no goroutine, no memory.
Dead(why) ==
  /\ crash' = why
  /\ rpc' = "dead"
  /\ data' = << >> /\ rx' = << >> /\ nsent' = 0
  /\ version' = 0 /\ running' = FALSE /\ runErr' = "none" /\ rchan' = NoChan
  /\ callback' = [k \in {} |-> NoChan] /\ Callback' = {}
  /\ chans' = [i \in DOMAIN chans |-> << >>]
  /\ nchan' = 0
  /\ cpc' = [c \in Callers |-> "dead"]
  /\ creq' = [c \in Callers |-> [body |-> << >>, ack |-> FALSE]]
  /\ cwait' = [c \in Callers |-> NoChan]
  /\ cown' = [c \in Callers |-> NoChan]
  /\ cres' = [c \in Callers |-> [frame |-> NoFrame, err |-> "none"]]
  /\ clate' = [c \in Callers |-> FALSE]
  /\ nframe' = 0 /\ handed' = << >> /\ active' = {}

\* ------------------------------------------------------------- device
devUnchanged == << rpc, data, version, running, runErr, rchan, callback, Callback,
                   chans, nchan, nframe, handed, active, crash >>

\* The device sends its next chunk when Run waits for bytes.
DeviceSend(chunks, max) ==
  /\ Alive
  /\ nsent < max
  /\ Len(rx) < Need
  /\ \E f \in chunks : rx' = rx \o f
  /\ nsent' = nsent + 1
  /\ UNCHANGED devUnchanged
  /\ UNCHANGED callVars

DeviceFrame == DeviceSend(DeviceFrames, MaxFrames)

DeviceReply == DeviceSend(ReplyFrames, MaxFrames)
DeviceAck == DeviceSend(AckFrames, MaxFrames)
DeviceLoop == DeviceSend(LoopFrames, MaxFrames)
DeviceKey == DeviceSend(KeyFrames, MaxFrames)
DeviceByte == DeviceSend({ << b >> : b \in SyncBytes }, MaxBytes)

\* ---------------------------------------------------------- Modem.Run
notRun == << nsent, callback, Callback, chans, nchan, crash >>

\* return err
RunReturn(err) ==
  /\ rpc' = "returned"
  /\ runErr' = err

\* serial.OpenPort, then m.port.Write([]byte{FrameStart, 0x03, GetVersion})
RunOpen ==
  /\ Alive /\ rpc = "open"
  /\ \/ rpc' = "read3" /\ UNCHANGED runErr
     \/ RunReturn("ErrOpen")
     \/ RunReturn("ErrTransport")
  /\ UNCHANGED << data, rx, version, running, rchan, nframe, handed, active >>
  /\ UNCHANGED notRun /\ UNCHANGED callVars

\* data = make([]byte, 3); m.port.Read(data)
RunSyncRead ==
  /\ Alive /\ rpc = "read3"
  /\ \/ /\ Len(rx) >= 3
        /\ data' = SubSeq(rx, 1, 3)
        /\ rx' = From(rx, 3)
        /\ rpc' = "scan"
        /\ UNCHANGED runErr
     \/ RunReturn("ErrTransport") /\ UNCHANGED << data, rx >>
  /\ UNCHANGED << version, running, rchan, nframe, handed, active >>
  /\ UNCHANGED notRun /\ UNCHANGED callVars

\* for data[0] != FrameStart && data[2] != GetVersion { shift; read one byte }
\* and, when the loop is left: if data[1] < 4 { return synchronisation error }
RunSyncScan ==
  /\ Alive /\ rpc = "scan"
  /\ IF ScanContinues(data)
       THEN \/ /\ Len(rx) >= 1
               /\ data' = Append(From(data, 1), rx[1])
               /\ rx' = From(rx, 1)
               /\ UNCHANGED << rpc, runErr >>
            \/ RunReturn("ErrTransport") /\ UNCHANGED << data, rx >>
       ELSE /\ IF At(data, 1) < 4
                 THEN RunReturn("ErrSync")
                 ELSE rpc' = "readVersion" /\ UNCHANGED runErr
            /\ UNCHANGED << data, rx >>
  /\ UNCHANGED << version, running, rchan, nframe, handed, active >>
  /\ UNCHANGED notRun /\ UNCHANGED callVars

\* RunSyncVersion without the check of the version.
RunSyncVersionAny ==
  /\ Alive /\ rpc = "readVersion"
  /\ \/ /\ Len(rx) >= Need
        /\ data' = SubSeq(rx, 1, Need)
        /\ rx' = From(rx, Need)
        /\ version' = At(data', 0)
        /\ rpc' = "readHeader" /\ running' = TRUE /\ UNCHANGED runErr
     \/ RunReturn("ErrTransport") /\ UNCHANGED << data, rx, version, running >>
  /\ UNCHANGED << rchan, nframe, handed, active >>
  /\ UNCHANGED notRun /\ UNCHANGED callVars

\* data = make([]byte, data[1]-3); Read; m.version = int(data[0]);
\* unsupported version, or m.running = true
RunSyncVersion ==
  /\ Alive /\ rpc = "readVersion"
  /\ \/ /\ Len(rx) >= Need
        /\ data' = SubSeq(rx, 1, Need)
        /\ rx' = From(rx, Need)
        /\ version' = At(data', 0)
        /\ IF version' # 1
             THEN RunReturn("ErrVersion") /\ UNCHANGED running
             ELSE rpc' = "readHeader" /\ running' = TRUE /\ UNCHANGED runErr
     \/ RunReturn("ErrTransport") /\ UNCHANGED << data, rx, version, running >>
  /\ UNCHANGED << rchan, nframe, handed, active >>
  /\ UNCHANGED notRun /\ UNCHANGED callVars

\* HeaderError without the check of the start marker.
HeaderErrorNoMarker(h) ==
  IF At(h, 1) < 2 THEN "ErrLength" ELSE "nil"

\* HeaderError without the check of the length byte.
HeaderErrorNoLength(h) ==
  IF At(h, 0) # FrameStart THEN "ErrUnexpected" ELSE "nil"

\* What Run makes of the two header bytes: the checks of the start marker
\* and of the length byte.
HeaderError(h) ==
  IF At(h, 0) # FrameStart THEN "ErrUnexpected"
  ELSE IF At(h, 1) < 2 THEN "ErrLength"
  ELSE "nil"

\* for m.running { data = make([]byte, 2); m.port.Read(data); the checks }
RunReadHeader ==
  /\ Alive /\ rpc = "readHeader"
  /\ IF ~running
       THEN RunReturn("nil") /\ UNCHANGED << data, rx >>
       ELSE \/ /\ Len(rx) >= 2
               /\ data' = SubSeq(rx, 1, 2)
               /\ rx' = From(rx, 2)
               /\ IF HeaderError(data') # "nil"
                    THEN RunReturn(HeaderError(data'))
                    ELSE rpc' = "readBody" /\ UNCHANGED runErr
            \/ RunReturn("ErrTransport") /\ UNCHANGED << data, rx >>
  /\ UNCHANGED << version, running, rchan, nframe, handed, active >>
  /\ UNCHANGED notRun /\ UNCHANGED callVars

\* data = append(data, make([]byte, data[1]-2)...); Read(data[2:])
\* (a Read into an empty slice returns at once, without an error)
RunReadBody ==
  /\ Alive /\ rpc = "readBody"
  /\ \/ /\ Len(rx) >= Need
        /\ data' = data \o SubSeq(rx, 1, Need)
        /\ rx' = From(rx, Need)
        /\ rpc' = "dispatch"
        /\ nframe' = nframe + 1
        /\ UNCHANGED runErr
     \/ /\ Need > 0
        /\ RunReturn("ErrTransport")
        /\ UNCHANGED << data, rx, nframe >>
  /\ UNCHANGED << version, running, rchan, handed, active >>
  /\ UNCHANGED notRun /\ UNCHANGED callVars

\* The capacity of a reply channel: make(chan []byte, 1).
ChanCap == 1

\* The frame has no waiter or no handler: log and continue.
RunDrop ==
  /\ rpc' = "readHeader"
  /\ UNCHANGED << runErr, rchan, handed, active >>

\* c, ok := m.callback[k]; if !ok { log; continue }; then c <- data
RunLookup(k) ==
  IF Lookup(k) = NoChan
    THEN RunDrop
    ELSE /\ rchan' = Lookup(k)
         /\ rpc' = "send"
         /\ UNCHANGED << runErr, handed, active >>

\* RunInvoke with the handler started as a goroutine of its own: Run goes on
\* at once.
RunInvokeAsync(k) ==
  IF k \notin Callback
    THEN /\ rpc' = "readHeader"
         /\ UNCHANGED << runErr, rchan, handed, active >>
    ELSE /\ rpc' = "readHeader"
         /\ handed' = Append(handed, nframe)
         /\ active' = active \cup {nframe}
         /\ UNCHANGED << runErr, rchan >>

\* if m.Callback[data[2]] == nil { log; continue }; else the handler is
\* called, and Run goes on when it has returned
RunInvoke(k) ==
  IF k \notin Callback
    THEN RunDrop
    ELSE /\ rpc' = "handler"
         /\ handed' = Append(handed, nframe)
         /\ active' = active \cup {nframe}
         /\ UNCHANGED << runErr, rchan >>

\* switch data[2] { case ACK, NAK: ... case DStarHeader, ...: ... default: ... }
\* (data[2] of a frame of length 2: index out of range)
RunDispatch ==
  /\ Alive /\ rpc = "dispatch"
  /\ IF Len(data) < 3
       THEN Dead("panic")
       ELSE /\ CASE Class(data) = "ack" ->
                      IF Len(data) < 4
                        THEN RunReturn("ErrLength") /\ UNCHANGED << rchan, handed, active >>
                        ELSE RunLookup(At(data, 3))
                 [] Class(data) = "stream" -> RunInvoke(At(data, 2))
                 [] OTHER -> RunLookup(At(data, 2))
            /\ UNCHANGED << data, rx, version, running, nframe >>
            /\ UNCHANGED notRun /\ UNCHANGED callVars

\* c <- data: blocks while the channel's buffer is full
RunChanSend ==
  /\ Alive /\ rpc = "send"
  /\ Len(chans[rchan]) < ChanCap
  /\ chans' = [chans EXCEPT ![rchan] = Append(@, [n |-> nframe, bytes |-> data])]
  /\ handed' = Append(handed, nframe)
  /\ rpc' = "readHeader"
  /\ UNCHANGED << data, rx, version, running, runErr, rchan, nframe, active >>
  /\ UNCHANGED << nsent, callback, Callback, nchan, crash >>
  /\ UNCHANGED callVars

\* the handler returns: if err != nil { return err }
RunHandlerReturn ==
  /\ Alive /\ rpc = "handler"
  /\ active' = active \ {nframe}
  /\ \/ rpc' = "readHeader" /\ UNCHANGED runErr
     \/ RunReturn("ErrHandler")
  /\ UNCHANGED << data, rx, version, running, rchan, nframe, handed >>
  /\ UNCHANGED notRun /\ UNCHANGED callVars

\* SetDMRDataFunc and the like: m.Callback[k] = f.  Run reads m.Callback
\* when it dispatches a streamed frame: a write at that moment is a data race.
SetFunc ==
  /\ Alive
  /\ \E k \in HandlerIds \ Callback :
       \/ /\ Callback' = Callback \cup {k}
          /\ UNCHANGED << nsent, callback, chans, nchan, crash >>
          /\ UNCHANGED runVars /\ UNCHANGED callVars
       \/ /\ rpc = "dispatch" /\ Len(data) >= 3 /\ Class(data) = "stream"
          /\ Dead("race")

\* ------------------------------------------------- the request functions
\* What the application may ask for: Status() is sendAndWait([GetStatus]),
\* SetMode(mode) is sendAndWaitForACK([SetMode, mode]).
Requests ==
  { [body |-> << GetStatus >>, ack |-> FALSE],
    [body |-> << SetMode, 1 >>, ack |-> TRUE] }

\* SetMode alone.
AckRequests == { [body |-> << SetMode, 1 >>, ack |-> TRUE] }

NoReq == [body |-> << >>, ack |-> FALSE]
NoRes == [frame |-> NoFrame, err |-> "none"]

\* Command without the switch: always body[1] when there is one.
CommandSecond(body) == IF Len(body) > 1 THEN At(body, 1) ELSE At(body, 0)

\* sendAndWait's command: body[1] for ACK/NAK, else body[0].
Command(body) == IF At(body, 0) \in {ACK, NAK} THEN At(body, 1) ELSE At(body, 0)

\* The key of the call a caller is in.
Key(c) == Command(creq[c].body)

\* Encode with the size byte taken for the length of the body.
EncodeBodyLen(body) == << FrameStart, U8(Len(body)) >> \o body

\* The frame Modem.send writes: the size byte is uint8(len(body) + 2).
Encode(body) == << FrameStart, U8(Len(body) + 2) >> \o body

\* m[k] = v
MapSet(m, k, v) == [x \in DOMAIN m \cup {k} |-> IF x = k THEN v ELSE m[x]]

\* delete(m, k)
MapDelete(m, k) == [x \in DOMAIN m \ {k} |-> m[x]]

\* What sendAndWaitForACK makes of the frame sendAndWait returned; "panic"
\* when it reads past the end of the frame (data[4] of a frame of length 4).
AckResult(d) ==
  CASE At(d, 2) = ACK -> "nil"
    [] At(d, 2) = NAK ->
         IF Len(d) < 5 THEN "panic"
         ELSE IF At(d, 4) \in DOMAIN nakError THEN nakError[At(d, 4)]
         ELSE "ErrUnknownReason"
    [] OTHER -> "ErrUnexpected"

callUnchanged == << nsent, Callback, nframe, handed, active, crash,
                    rpc, data, rx, version, running, runErr, rchan >>

\* The application calls a request function with a request of R.
Call(c, R) ==
  /\ Alive /\ cpc[c] = "idle"
  /\ c = "c1" \/ cpc["c1"] # "idle"
  /\ \E r \in R : creq' = [creq EXCEPT ![c] = r]
  /\ cpc' = [cpc EXCEPT ![c] = "register"]
  /\ clate' = [clate EXCEPT ![c] = (rpc = "returned")]
  /\ UNCHANGED << cwait, cown, cres, callback, chans, nchan >>
  /\ UNCHANGED callUnchanged

\* m.port is set: serial.OpenPort has returned a port.
PortOpen == rpc # "open" /\ runErr # "ErrOpen"

\* m.callback[command] = make(chan []byte, 1); then
\* if err := m.send(body); err != nil { return nil, err }
\* (m.port.Write on the nil m.port: nil pointer dereference)
Register(c) ==
  /\ Alive /\ cpc[c] = "register"
  /\ IF ~PortOpen
       THEN Dead("panic")
       ELSE /\ nchan' = nchan + 1
            /\ callback' = MapSet(callback, Key(c), nchan')
            /\ cown' = [cown EXCEPT ![c] = nchan']
            /\ \/ cpc' = [cpc EXCEPT ![c] = "select"] /\ UNCHANGED cres
               \/ /\ cres' = [cres EXCEPT ![c] = [frame |-> NoFrame, err |-> "ErrTransport"]]
                  /\ cpc' = [cpc EXCEPT ![c] = "unregister"]
            /\ UNCHANGED << creq, cwait, clate, chans >>
            /\ UNCHANGED callUnchanged

\* select: the channel operand m.callback[command] is evaluated once
Select(c) ==
  /\ Alive /\ cpc[c] = "select"
  /\ cwait' = [cwait EXCEPT ![c] = Lookup(Key(c))]
  /\ cpc' = [cpc EXCEPT ![c] = "wait"]
  /\ UNCHANGED << creq, cown, cres, clate, callback, chans, nchan >>
  /\ UNCHANGED callUnchanged

\* case data := <-m.callback[command]: return data, nil
Recv(c) ==
  /\ Alive /\ cpc[c] = "wait"
  /\ cwait[c] # NoChan
  /\ chans[cwait[c]] # << >>
  /\ cres' = [cres EXCEPT ![c] = [frame |-> Head(chans[cwait[c]]).bytes, err |-> "nil"]]
  /\ chans' = [chans EXCEPT ![cwait[c]] = Tail(@)]
  /\ cpc' = [cpc EXCEPT ![c] = "unregister"]
  /\ UNCHANGED << creq, cwait, cown, clate, callback, nchan >>
  /\ UNCHANGED callUnchanged

\* time.After(t) delivers when t has passed.
TimerFires(c) == TRUE

\* case <-time.After(t): return nil, ErrTimeout
Timeout(c) ==
  /\ Alive /\ cpc[c] = "wait"
  /\ TimerFires(c)
  /\ cres' = [cres EXCEPT ![c] = [frame |-> NoFrame, err |-> "ErrTimeout"]]
  /\ cpc' = [cpc EXCEPT ![c] = "unregister"]
  /\ UNCHANGED << creq, cwait, cown, clate, callback, chans, nchan >>
  /\ UNCHANGED callUnchanged

\* Deferred without the delete: the entry stays in the map.
DeferredKeep(c) == callback

\* Deferred with the entry removed only when a reply was received.
DeferredOnReply(c) ==
  IF cres[c].err = "nil" THEN MapDelete(callback, Key(c)) ELSE callback

\* The deferred function: delete(m.callback, command)
Deferred(c) == MapDelete(callback, Key(c))

\* sendAndWait returns: the deferred function runs.
Unregister(c) ==
  /\ Alive /\ cpc[c] = "unregister"
  /\ callback' = Deferred(c)
  /\ cpc' = [cpc EXCEPT ![c] = "returned"]
  /\ UNCHANGED << creq, cwait, cown, cres, clate, chans, nchan >>
  /\ UNCHANGED callUnchanged

\* What the request function returns to the application.
Outcome(c) ==
  IF creq[c].ack /\ cres[c].err = "nil" THEN AckResult(cres[c].frame) ELSE cres[c].err

\* The request function returns to the application (sendAndWaitForACK
\* decodes the frame first).
Finish(c) ==
  /\ Alive /\ cpc[c] = "returned"
  /\ IF Outcome(c) = "panic"
       THEN Dead("panic")
       ELSE /\ cpc' = [cpc EXCEPT ![c] = "done"]
            /\ creq' = [creq EXCEPT ![c] = NoReq]
            /\ cwait' = [cwait EXCEPT ![c] = NoChan]
            /\ cown' = [cown EXCEPT ![c] = NoChan]
            /\ cres' = [cres EXCEPT ![c] = NoRes]
            /\ clate' = [clate EXCEPT ![c] = FALSE]
            /\ UNCHANGED << callback, chans, nchan >>
            /\ UNCHANGED callUnchanged

\* The command bodies of SpecEncode: a command id and the payload 1, 2, ...
Bodies ==
  { << cmd >> \o [i \in 1..n |-> i % 251] :
      cmd \in {GetStatus, DMRData}, n \in 0..(MaxBody - 1) }

\* Register with a port that is looped back: the bytes m.send writes are the
\* next bytes Run reads.
SendEcho(c) ==
  /\ Alive /\ cpc[c] = "register"
  /\ IF ~PortOpen
       THEN Dead("panic")
       ELSE /\ nchan' = nchan + 1
            /\ callback' = MapSet(callback, Key(c), nchan')
            /\ cown' = [cown EXCEPT ![c] = nchan']
            /\ \/ /\ cpc' = [cpc EXCEPT ![c] = "select"]
                  /\ rx' = rx \o Encode(creq[c].body)
                  /\ UNCHANGED cres
               \/ /\ cres' = [cres EXCEPT ![c] = [frame |-> NoFrame, err |-> "ErrTransport"]]
                  /\ cpc' = [cpc EXCEPT ![c] = "unregister"]
                  /\ UNCHANGED rx
            /\ UNCHANGED << creq, cwait, clate, chans >>
            /\ UNCHANGED << nsent, Callback, nframe, handed, active, crash,
                            rpc, data, version, running, runErr, rchan >>

\* ----------------------------------------------------- the data race
\* The goroutine's next step reads or writes m.callback.
CallerAccess(c) == cpc[c] \in {"register", "select", "unregister"}
CallerWrites(c) == cpc[c] \in {"register", "unregister"}
RunReads == rpc = "dispatch" /\ LooksUp(data)

\* Two goroutines are at m.callback at the same time, one of them writing:
\* the runtime may end the process.
MapRace ==
  /\ Alive
  /\ \E c \in Callers :
       /\ CallerWrites(c)
       /\ \/ RunReads
          \/ \E d \in Callers \ {c} : CallerAccess(d)
  /\ Dead("race")

\* ------------------------------------------------------ specification
\* New, before Run is started.
Init ==
  /\ rpc = "open"
  /\ data = << >>
  /\ rx = << >>
  /\ nsent = 0
  /\ version = 0
  /\ running = FALSE
  /\ runErr = "none"
  /\ rchan = NoChan
  /\ callback = [k \in {} |-> NoChan]
  /\ Callback = {}
  /\ chans = [i \in 1..Cardinality(Callers) |-> << >>]
  /\ nchan = 0
  /\ cpc = [c \in Callers |-> "idle"]
  /\ creq = [c \in Callers |-> NoReq]
  /\ cwait = [c \in Callers |-> NoChan]
  /\ cown = [c \in Callers |-> NoChan]
  /\ cres = [c \in Callers |-> NoRes]
  /\ clate = [c \in Callers |-> FALSE]
  /\ nframe = 0
  /\ handed = << >>
  /\ active = {}
  /\ crash = "none"

RunSync == RunOpen \/ RunSyncRead \/ RunSyncScan \/ RunSyncVersion

RunStep ==
  \/ RunSync
  \/ RunReadHeader \/ RunReadBody \/ RunDispatch \/ RunChanSend
  \/ RunHandlerReturn

\* The steps of a caller inside sendAndWait.
WaitStep(c) ==
  \/ Register(c) \/ Select(c) \/ Recv(c) \/ Timeout(c) \/ Unregister(c)

CallerStep(c, R) == Call(c, R) \/ WaitStep(c) \/ Finish(c)

Next ==
  \/ DeviceFrame
  \/ RunStep
  \/ SetFunc
  \/ \E c \in Callers : CallerStep(c, Requests)
  \/ MapRace

Spec == Init /\ [][Next]_vars

\* The scheduler runs every goroutine that can run, and a timer fires.
Fairness == \A c \in Callers : WF_vars(WaitStep(c))

\* The callers and Run with a device that sends replies only, and no
\* handler registered.
NextWait ==
  \/ DeviceReply
  \/ RunSync
  \/ RunReadHeader \/ RunReadBody \/ RunDispatch \/ RunChanSend
  \/ \E c \in Callers : CallerStep(c, Requests)
  \/ MapRace

FairSpec == Init /\ [][NextWait]_vars /\ Fairness

\* Synchronisation alone, the device sending byte by byte.
NextSync == DeviceByte \/ RunSync

SpecSync == Init /\ [][NextSync]_vars

\* One caller, which sets the mode; the device answers with ACK and NAK frames.
NextAck ==
  \/ DeviceAck
  \/ RunSync
  \/ RunReadHeader \/ RunReadBody \/ RunDispatch \/ RunChanSend
  \/ CallerStep("c1", AckRequests)
  \/ MapRace

SpecAck == Init /\ [][NextAck]_vars


\* Run, one caller and the handler registration, the device sending frames of
\* several lengths and malformed headers.
NextLoop ==
  \/ DeviceLoop
  \/ RunStep
  \/ SetFunc
  \/ CallerStep("c1", Requests)
  \/ MapRace

SpecLoop == Init /\ [][NextLoop]_vars

\* A synchronised session in which caller c1 is about to send a body of Bodies.
InitEncode ==
  /\ rpc = "readHeader"
  /\ data = << 1 >>
  /\ rx = << >>
  /\ nsent = 1
  /\ version = 1
  /\ running = TRUE
  /\ runErr = "none"
  /\ rchan = NoChan
  /\ callback = [k \in {} |-> NoChan]
  /\ Callback = {}
  /\ chans = [i \in 1..Cardinality(Callers) |-> << >>]
  /\ nchan = 0
  /\ \E b \in Bodies :
       creq = [c \in Callers |-> IF c = "c1" THEN [body |-> b, ack |-> TRUE] ELSE NoReq]
  /\ cpc = [c \in Callers |-> IF c = "c1" THEN "register" ELSE "idle"]
  /\ cwait = [c \in Callers |-> NoChan]
  /\ cown = [c \in Callers |-> NoChan]
  /\ cres = [c \in Callers |-> NoRes]
  /\ clate = [c \in Callers |-> FALSE]
  /\ nframe = 0
  /\ handed = << >>
  /\ active = {}
  /\ crash = "none"

\* The body is encoded and sent, and Run reads the frame back.
NextEncode == SendEcho("c1") \/ RunReadHeader \/ RunReadBody

SpecEncode == InitEncode /\ [][NextEncode]_vars

\* The callers and Run with a device that answers with replies and ACK/NAK
\* frames for both keys.
NextKey ==
  \/ DeviceKey
  \/ RunSync
  \/ RunReadHeader \/ RunReadBody \/ RunDispatch \/ RunChanSend
  \/ \E c \in Callers : CallerStep(c, Requests)
  \/ MapRace

SpecKey == Init /\ [][NextKey]_vars

\* ------------------------------------------------------------ claims
\* The caller is inside sendAndWait.
InCall(c) == cpc[c] \in {"register", "select", "wait", "unregister"}

\* The caller has made its entry in m.callback and has not yet removed it.
Registered(c) == cpc[c] \in {"select", "wait", "unregister"}

Range(f) == { f[x] : x \in DOMAIN f }

\* C1: whenever sendAndWait returns, with a reply, with ErrTimeout or with a
\* transmit error, m.callback holds no entry for the call's key.
C1_UnregisteredOnReturn ==
  [][ \A c \in Callers :
        (cpc[c] = "unregister" /\ cpc'[c] = "returned")
          => Key(c) \notin DOMAIN callback' ]_vars

\* A Status() call has timed out and returned, and GetStatus has no entry.
C1_Witness ==
  \E c \in Callers :
    /\ cpc[c] = "returned"
    /\ creq[c].body = << GetStatus >>
    /\ cres[c].err = "ErrTimeout"
    /\ GetStatus \notin DOMAIN callback

\* C2: Run is never stuck at c <- data: when the channel's buffer is full,
\* some caller can still take the frame out of it.
C2_LoopNeverStuck ==
  ~ ( /\ rpc = "send"
      /\ Len(chans[rchan]) >= ChanCap
      /\ rchan \notin Range(callback)
      /\ \A c \in Callers : ~(cpc[c] = "wait" /\ cwait[c] = rchan) )

\* C3: every sendAndWait call returns in the end; when it leaves the select
\* with no frame in its channel it returns ErrTimeout; a failed transmit
\* returns the transmit error without waiting, and nothing else returns
\* that error.
C3_CallReturns ==
  /\ \A c \in Callers : InCall(c) ~> (cpc[c] = "returned")
  /\ [][ \A c \in Callers :
           /\ ( /\ cpc[c] = "wait" /\ cpc'[c] = "unregister"
                /\ (cwait[c] = NoChan \/ chans[cwait[c]] = << >>) )
                => cres'[c] = [frame |-> NoFrame, err |-> "ErrTimeout"]
           /\ (cpc[c] = "register" /\ cpc'[c] = "unregister")
                => cres'[c] = [frame |-> NoFrame, err |-> "ErrTransport"]
           /\ (cpc'[c] = "wait" /\ cpc[c] # "wait")
                => cres'[c].err = "none" ]_vars

\* C4: a registration of a key that has an entry leaves the entry as it is,
\* and the call ends with an error instead of transmitting.
C4_RegisterKeepsEntry ==
  [][ \A c \in Callers :
        ( /\ cpc[c] = "register" /\ cpc'[c] \in {"select", "unregister"}
          /\ Key(c) \in DOMAIN callback )
          => /\ callback'[Key(c)] = callback[Key(c)]
             /\ cpc'[c] = "unregister" ]_vars

\* C5: a call made after Run has returned never transmits and waits.
C5_LateCallFailsFast ==
  \A c \in Callers : clate[c] => cpc[c] \notin {"select", "wait"}

\* C6: what sendAndWaitForACK returns for the frame it was handed: nil if and
\* only if the frame is an ACK; for a NAK the typed error of reasons 1..5 and
\* the unknown-reason error otherwise; the unexpected-reply error for any
\* other command id.
C6_AckOutcome ==
  \A c \in Callers :
    (cpc[c] = "returned" /\ creq[c].ack /\ cres[c].err = "nil") =>
      LET d == cres[c].frame
          typed == { nakError[r] : r \in DOMAIN nakError }
      IN /\ (Outcome(c) = "nil") <=> (At(d, 2) = ACK)
         /\ At(d, 2) = NAK =>
              /\ Outcome(c) \in typed \cup {"ErrUnknownReason"}
              /\ (Outcome(c) \in typed) =>
                   (Len(d) >= 5 /\ At(d, 4) \in 1..5 /\ Outcome(c) = nakError[At(d, 4)])
              /\ (Len(d) >= 5 /\ At(d, 4) \in 1..5) => Outcome(c) \in typed
         /\ At(d, 2) \notin {ACK, NAK} => Outcome(c) = "ErrUnexpected"

\* The frame Run is dispatching has no waiter, or no handler.
Undeliverable ==
  \/ LooksUp(data) /\ Lookup(FrameKey(data)) = NoChan
  \/ Len(data) >= 3 /\ Class(data) = "stream" /\ At(data, 2) \notin Callback

\* C7: when Run dispatches a frame that has no waiter or no handler, it hands
\* the frame to nobody, does not return, and is back at the top of the loop
\* to read the next header.
C7_UndeliverableNotFatal ==
  [][ ( /\ rpc = "dispatch" /\ rpc' # "dispatch"
        /\ Undeliverable )
        => /\ rpc' = "readHeader"
           /\ runErr' = "none"
           /\ running'
           /\ handed' = handed /\ chans' = chans /\ active' = active ]_vars

\* C8: frames are handed to channels and handlers in the order they were
\* read; only the frame read last is handed over; no two handlers run at
\* the same time, and Run reads nothing while a handler runs.
C8_StreamOrder ==
  /\ \A i, j \in DOMAIN handed : i < j => handed[i] < handed[j]
  /\ \A i \in DOMAIN handed : handed[i] <= nframe
  /\ Cardinality(active) <= 1
  /\ active # {} => (rpc = "handler" /\ active = {nframe})

\* A second frame is in its handler after a first frame was handed over.
C8_Witness == Len(handed) = 2 /\ active = {handed[2]}

\* C9: a step of a caller keyed A leaves the entry, the channel and the
\* state of a registered caller keyed B # A as they are; and a caller that
\* receives a frame receives one addressed to its own key.
C9_KeysIndependent ==
  [][ \A a, b \in Callers :
        /\ ( /\ a # b /\ InCall(a) /\ Registered(b) /\ Key(a) # Key(b)
             /\ cpc'[a] # cpc[a] )
             => /\ Key(b) \in DOMAIN callback /\ Key(b) \in DOMAIN callback'
                /\ callback'[Key(b)] = callback[Key(b)]
                /\ chans'[callback[Key(b)]] = chans[callback[Key(b)]]
                /\ cpc'[b] = cpc[b] /\ cwait'[b] = cwait[b] /\ cres'[b] = cres[b]
        /\ (cpc[b] = "wait" /\ cpc'[b] = "unregister" /\ cres'[b].err = "nil")
             => FrameKey(cres'[b].frame) = Key(b) ]_vars

\* C10: Run leaves the synchronisation loop only on a window whose first
\* byte is the start marker and whose third byte is Get Version.
C10_LeavesScanOnAnchor ==
  (rpc = "readVersion" \/ (rpc = "returned" /\ runErr = "ErrSync"))
    => (At(data, 0) = FrameStart /\ At(data, 2) = GetVersion)

\* C11: Run enters the receive loop (m.running) only from the read of the
\* version, which follows a window with length byte >= 4, and only with
\* version 1: a window that ends the scan with length byte < 4 ends Run with the
\* synchronisation error, a version other than 1 with the unsupported-version
\* error, neither sets m.running; whenever m.running is set m.version is 1.
C11_RunningOnlyVersionOne ==
  /\ [](running => version = 1)
  /\ [](rpc = "readVersion" => At(data, 1) >= 4)
  /\ [][ /\ (running' /\ ~running) => (rpc = "readVersion" /\ version' = 1)
         /\ (rpc = "scan" /\ rpc' # "scan" /\ ~ScanContinues(data) /\ At(data, 1) < 4)
              => (rpc' = "returned" /\ runErr' = "ErrSync" /\ ~running')
         /\ (rpc = "readVersion" /\ rpc' # "readVersion" /\ version' # version
               /\ version' # 1)
              => (rpc' = "returned" /\ runErr' = "ErrVersion" /\ ~running')
         /\ (runErr' = "ErrSync" /\ runErr # "ErrSync") => At(data, 1) < 4
         /\ (runErr' = "ErrVersion" /\ runErr # "ErrVersion") => version' # 1
      ]_vars

\* Run has synchronised on the version reply E0 04 00 01 and is in the loop.
C11_Witness ==
  /\ running /\ version = 1 /\ rpc = "readHeader"
  /\ data = << 1 >> /\ nsent = 4

\* C12: a header whose length byte is below 3 ends Run with the length
\* error: Run does not go on to read or to classify the body of that frame.
C12_ShortFrameRejected ==
  [][ ( /\ rpc = "readHeader" /\ rpc' # "readHeader"
        /\ Len(data') = 2 /\ rx' # rx
        /\ At(data', 0) = FrameStart /\ At(data', 1) < 3 )
        => (rpc' = "returned" /\ runErr' = "ErrLength") ]_vars

\* C13: a header that starts with the start marker and has length byte 0 or
\* 1 ends Run with the length error, the two header bytes being all that
\* was read of it; once Run has returned it reads nothing more.
C13_TinyLengthStops ==
  [][ /\ ( /\ rpc = "readHeader" /\ rpc' # "readHeader"
           /\ Len(data') = 2 /\ rx' # rx
           /\ At(data', 0) = FrameStart /\ At(data', 1) < 2 )
           => /\ rpc' = "returned" /\ runErr' = "ErrLength"
              /\ rx' = From(rx, 2)
      /\ rpc = "returned"
           => /\ rpc' \in {"returned", "dead"}
              /\ rpc' = "returned" => (rx' = rx /\ data' = data /\ runErr' = runErr)
    ]_vars

\* Run has returned the length error on the header E0 01 and the byte that
\* came after the header is still unread.
C13_Witness ==
  /\ rpc = "returned" /\ runErr = "ErrLength"
  /\ data = << FrameStart, 1 >>
  /\ rx = << GetStatus >>

\* C14: the frame m.send transmits is the start marker, the byte
\* len(body) + 2 and the body, its length byte being the number of bytes of
\* the frame; a body with len(body) + 2 > 255 is not transmitted: the call
\* ends with an error.
C14_LengthByteExact ==
  [][ \A c \in Callers :
        (cpc[c] = "register" /\ cpc'[c] \in {"select", "unregister"}) =>
          LET body == creq[c].body
              sent == SubSeq(rx', Len(rx) + 1, Len(rx'))
          IN /\ Len(body) + 2 > 255 => (sent = << >> /\ cpc'[c] = "unregister")
             /\ sent # << >> =>
                  /\ sent = << FrameStart, Len(body) + 2 >> \o body
                  /\ At(sent, 1) = Len(sent) ]_vars

\* C15: a body with a payload of 0..252 bytes that was encoded and sent is
\* read back by Run as one frame: Run rejects no header (it ends only when
\* a Read fails), and when it has read
\* the header and length - 2 further bytes the frame's command id is body[0],
\* its payload is the rest of the body, and no byte is left over.
C15_RoundTrip ==
  LET body == creq["c1"].body
  IN (Alive /\ cpc["c1"] = "select" /\ Len(body) - 1 <= 252) =>
       /\ runErr \in {"none", "ErrTransport"}
       /\ rpc = "readBody" => (data = << FrameStart, Len(body) + 2 >> /\ rx = body)
       /\ rpc = "dispatch" =>
            /\ nframe = 1 /\ rx = << >>
            /\ Len(data) = Len(body) + 2
            /\ At(data, 2) = At(body, 0)
            /\ From(data, 3) = From(body, 1)

\* Run has read back the frame of a body with a payload of 252 bytes.
C15_Witness ==
  /\ rpc = "dispatch" /\ cpc["c1"] = "select"
  /\ Len(creq["c1"].body) = 253
  /\ Len(data) = 255 /\ At(data, 1) = 255

C17_BadMarkerStops ==
  [][ /\ ( /\ rpc = "readHeader" /\ rpc' # "readHeader"
           /\ Len(data') = 2 /\ rx' # rx
           /\ At(data', 0) # FrameStart )
           => /\ rpc' = "returned" /\ runErr' = "ErrUnexpected"
              /\ rx' = From(rx, 2)
              /\ handed' = handed /\ active' = active /\ chans' = chans
      /\ (rpc = "returned" /\ runErr = "ErrUnexpected")
           => \/ rpc' = "dead"
              \/ /\ rpc' = "returned" /\ runErr' = runErr
                 /\ rx' = rx /\ data' = data
                 /\ handed' = handed /\ active' = active
                 /\ \A i \in DOMAIN chans : Len(chans'[i]) <= Len(chans[i])
    ]_vars

\* Run has returned the unexpected-byte error on the header 01 03 and the
\* byte that came after it is still unread.
C17_Witness ==
  /\ rpc = "returned" /\ runErr = "ErrUnexpected"
  /\ data = << GetStatus, 3 >>
  /\ rx = << GetStatus >>
  /\ nframe >= 1

\* C18: when a call returns, the entry another call with the same key is
\* still waiting on stays in m.callback, with the same channel.
C18_UnregisterOwnEntry ==
  [][ \A a, b \in Callers :
        ( /\ a # b
          /\ cpc[a] = "unregister" /\ cpc'[a] = "returned"
          /\ cpc[b] = "wait" /\ cwait[b] # NoChan
          /\ Key(a) = Key(b)
          /\ Lookup(Key(b)) = cwait[b] )
          => ( Key(b) \in DOMAIN callback' /\ callback'[Key(b)] = cwait[b] ) ]_vars

\* The frame numbers waiting in the channels, with their places.
Slotted == { << i, j >> \in (DOMAIN chans) \X (1..ChanCap) : j <= Len(chans[i]) }

\* C19: a frame Run has put into a channel is in one channel only, and is
\* taken out by the one call that receives it; a call receives at most one
\* frame; a call waits only on a channel made by a call that has not yet
\* returned, and the channel of a call that has returned is not in
\* m.callback, so what is left in it is received by no later call.
C19_SingleHandoff ==
  /\ [](\A p, q \in Slotted :
          /\ chans[p[1]][p[2]].n \in Range(handed)
          /\ chans[p[1]][p[2]].n = chans[q[1]][q[2]].n => p = q)
  /\ [](\A a \in Callers :
          cpc[a] = "returned" => cown[a] \notin Range(callback))
  /\ [][ \A c \in Callers :
           /\ (cpc[c] = "wait" /\ cpc'[c] = "unregister" /\ cres'[c].err = "nil")
                => /\ cres'[c].frame = Head(chans[cwait[c]]).bytes
                   /\ chans' = [chans EXCEPT ![cwait[c]] = Tail(@)]
                   /\ \A d \in Callers \ {c} : cres'[d] = cres[d]
           /\ cres[c].frame # NoFrame
                => (cres'[c] = cres[c] \/ cpc'[c] \in {"done", "dead"})
           /\ (cpc[c] = "select" /\ cpc'[c] = "wait" /\ cwait'[c] # NoChan)
                => \E a \in Callers : Registered(a) /\ cown[a] = cwait'[c]
      ]_vars

\* A call has returned and left a frame in its channel; a call that
\* registered later has returned with a frame of its own.
C19_Witness ==
  \E a, b \in Callers :
    /\ cpc[a] = "returned" /\ cown[a] # NoChan /\ chans[cown[a]] # << >>
    /\ cpc[b] = "returned" /\ cres[b].err = "nil"
    /\ cown[b] > cown[a]

\* The byte sequences that start at the first byte of a frame the device
\* sent: a whole chunk, or the second frame of the two sent back to back.
FrameStarts == LoopFrames \cup { << FrameStart, 4, DMRData, 9 >> }

\* C20: in the loop Run takes the 2 header bytes and then, for a length byte
\* L >= 2, exactly L - 2 more, the frame being the L bytes in stream order;
\* dispatching, delivering, handling or dropping a frame takes no byte; so
\* whenever Run is about to read a header the unread bytes start at the
\* first byte of a frame.
C20_FrameBoundaries ==
  /\ []((running /\ rpc = "readHeader" /\ rx # << >>) => rx \in FrameStarts)
  /\ [][ /\ (rpc = "readHeader" /\ rpc' \in {"readBody", "returned"} /\ rx' # rx)
              => (Len(data') = 2 /\ data' \o rx' = rx)
         /\ (rpc = "readBody" /\ rpc' = "dispatch")
              => /\ At(data, 1) >= 2
                 /\ Len(data') = At(data, 1)
                 /\ data' \o rx' = data \o rx
         /\ (rpc \in {"dispatch", "send", "handler"} /\ rpc' # "dead")
              => (rx' = rx /\ data' = data)
      ]_vars

\* Two frames came back to back; the first was delivered to a waiting call
\* and Run has read the second, whole, and handed it to the handler.
C20_Witness ==
  /\ rpc = "handler" /\ nframe = 2 /\ Len(handed) = 2
  /\ data = << FrameStart, 4, DMRData, 9 >>
  /\ rx = << >>

=============================================================================
